---- MODULE Spec2Model ----
(***************************************************************************)
(* A model of the general_graph crate: the generic union-find (dsu.rs),    *)
(* the size-balanced union-find and the sparse graph (general_graph.rs),   *)
(* and the compact graph with its generators (normal_graph.rs).            *)
(*                                                                         *)
(* Slot indices, node ids and labels are 0-based as in the Rust source; a  *)
(* Vec is a TLA+ sequence, so slot i of a Vec v is v[i + 1].               *)
(***************************************************************************)
EXTENDS Integers, Sequences, FiniteSets, TLC

(***************************************************************************)
(* Bounds of the model.                                                    *)
(***************************************************************************)
\* number of distinct keys handed to the generic DSU
NumKeys == 3
\* largest number of slots the generic DSU may hold
MaxEntries == 3
\* a counter of "add returned true" saturates here (2 = more than once)
CountCap == 2

Keys == 1 .. NumKeys

VARIABLES
    entries,    \* DSU.entries : Vec<DSUEntry>, each [val, parent]
    indices,    \* DSU.indices : HashMap<T, usize>
    unioned,    \* history: the pairs {x, y}, x # y, passed to union so far
    dupAdded,   \* history: add_unchecked was applied to a present key
    addTrue,    \* history: per key, how often add returned true (saturating)
    track,      \* which history is recorded: "union" (unioned) or "add" (addTrue)
    nodes,      \* GeneralUndiGraph.nodes : HashSet<usize>
    edges,      \* GeneralUndiGraph.edges : HashSet<(usize, usize)>
    ng,         \* the NormalUndiGraph built last, or NoGraph
    gop,        \* history: the last graph operation
    fparent,    \* FastDSU.parent : HashMap<usize, FastDSUEntry>
    freadds,    \* history: how often FastDSU.add was given a tracked id
    fjoins      \* history: how many calls of FastDSU.union returned true

dsuVars == <<entries, indices, unioned, dupAdded, addTrue, track>>

graphVars == <<nodes, edges, ng, gop>>

fastVars == <<fparent, freadds, fjoins>>

vars == <<entries, indices, unioned, dupAdded, addTrue, track, nodes, edges, ng, gop,
          fparent, freadds, fjoins>>

(***************************************************************************)
(* dsu.rs: the generic union-find.  A DSU value is the record              *)
(* [entries, indices]; every method is an operator from the value (and the *)
(* arguments) to the returned value `ret` and the value afterwards `d`.    *)
(***************************************************************************)
DSU_new == [entries |-> <<>>, indices |-> <<>>]

\* HashMap::insert
MapInsert(m, k, v) == [j \in (DOMAIN m) \cup {k} |-> IF j = k THEN v ELSE m[j]]

\* an add_unchecked whose new slot points at slot 0, not at itself
DSU_add_unchecked_parent0(d, val) ==
    LET i == Len(d.entries)
    IN  [ret |-> i,
         d   |-> [entries |-> Append(d.entries, [val |-> val, parent |-> 0]),
                  indices |-> MapInsert(d.indices, val, i)]]

\* an add_unchecked that leaves the map entry of a present key alone
DSU_add_unchecked_keep_index(d, val) ==
    LET i == Len(d.entries)
    IN  [ret |-> i,
         d   |-> [entries |-> Append(d.entries, [val |-> val, parent |-> i]),
                  indices |-> IF val \in DOMAIN d.indices
                              THEN d.indices
                              ELSE MapInsert(d.indices, val, i)]]

DSU_add_unchecked(d, val) ==
    LET i == Len(d.entries)
    IN  [ret |-> i,
         d   |-> [entries |-> Append(d.entries, [val |-> val, parent |-> i]),
                  indices |-> MapInsert(d.indices, val, i)]]

\* an add without the contains_key test
DSU_add_always(d, val) ==
    [ret |-> TRUE, d |-> DSU_add_unchecked(d, val).d]

DSU_add(d, val) ==
    IF val \in DOMAIN d.indices
    THEN [ret |-> FALSE, d |-> d]
    ELSE [ret |-> TRUE, d |-> DSU_add_unchecked(d, val).d]

DSU_index(d, val) ==
    IF val \in DOMAIN d.indices
    THEN [ret |-> d.indices[val], d |-> d]
    ELSE DSU_add_unchecked(d, val)

RECURSIVE DSU_find_by_index(_, _)
DSU_find_by_index(d, x) ==
    LET px == d.entries[x + 1].parent
    IN  IF px = x
        THEN [ret |-> px, d |-> d]
        ELSE LET r == DSU_find_by_index(d, px)
             IN  [ret |-> r.ret,
                  d   |-> [r.d EXCEPT !.entries[x + 1].parent = r.ret]]

\* precondition (indexing panics otherwise): val \in DOMAIN d.indices
DSU_find_unchecked(d, val) == DSU_find_by_index(d, d.indices[val])

DSU_find(d, val) ==
    LET i == DSU_index(d, val)
    IN  DSU_find_by_index(i.d, i.ret)

\* (find_unchecked(val_x), find_unchecked(val_y)) left to right, then the
\* root of x is linked under the root of y
DSU_union_unchecked(d, val_x, val_y) ==
    LET fx == DSU_find_unchecked(d, val_x)
        fy == DSU_find_unchecked(fx.d, val_y)
    IN  [ret |-> fx.ret # fy.ret,
         d   |-> [fy.d EXCEPT !.entries[fx.ret + 1].parent = fy.ret]]

\* a union that links the slot of x itself, not its root
DSU_union_no_root(d, val_x, val_y) ==
    LET fx == DSU_find(d, val_x)
        fy == DSU_find(fx.d, val_y)
    IN  [ret |-> fx.ret # fy.ret,
         d   |-> [fy.d EXCEPT !.entries[fy.d.indices[val_x] + 1].parent = fy.ret]]

\* a union that reports a merge whatever the roots are
DSU_union_ret_true(d, val_x, val_y) ==
    LET fx == DSU_find(d, val_x)
        fy == DSU_find(fx.d, val_y)
    IN  [ret |-> TRUE,
         d   |-> [fy.d EXCEPT !.entries[fx.ret + 1].parent = fy.ret]]

\* a union that links the two roots to each other
DSU_union_both_ways(d, val_x, val_y) ==
    LET fx == DSU_find(d, val_x)
        fy == DSU_find(fx.d, val_y)
    IN  [ret |-> fx.ret # fy.ret,
         d   |-> [fy.d EXCEPT !.entries[fx.ret + 1].parent = fy.ret,
                              !.entries[fy.ret + 1].parent = fx.ret]]

DSU_union(d, val_x, val_y) ==
    LET fx == DSU_find(d, val_x)
        fy == DSU_find(fx.d, val_y)
    IN  [ret |-> fx.ret # fy.ret,
         d   |-> [fy.d EXCEPT !.entries[fx.ret + 1].parent = fy.ret]]

(***************************************************************************)
(* The generic DSU as a state machine: one action per public method.  The  *)
(* history variables record what the properties below speak of; `track`    *)
(* selects which history a specification records.                         *)
(***************************************************************************)
D == [entries |-> entries, indices |-> indices]

DP == [entries |-> entries', indices |-> indices']

\* the slots a call on these keys may allocate stay within the bound
Room(ks) == Len(entries) + Cardinality(ks \ DOMAIN indices) <= MaxEntries

Bump(c) == IF c < CountCap THEN c + 1 ELSE CountCap

Pair(x, y) == IF x = y THEN {} ELSE {{x, y}}

InitDSUVars ==
    /\ entries = DSU_new.entries
    /\ indices = DSU_new.indices
    /\ unioned = {}
    /\ dupAdded = FALSE
    /\ addTrue = [k \in Keys |-> 0]

NoGraph == [name |-> <<"None">>, n |-> 0, m |-> 0, adjs |-> <<>>]

InitGraphVars ==
    /\ nodes = {}
    /\ edges = {}
    /\ ng = NoGraph
    /\ gop = "new"

FastDSU_new == <<>>

InitFastVars ==
    /\ fparent = FastDSU_new
    /\ freadds = 0
    /\ fjoins = 0

InitDSU == InitDSUVars /\ track = "union" /\ InitGraphVars /\ InitFastVars

InitDSUAdd == InitDSUVars /\ track = "add" /\ InitGraphVars /\ InitFastVars

AddUnchecked(v) ==
    /\ Len(entries) < MaxEntries
    /\ LET r == DSU_add_unchecked(D, v)
       IN  /\ entries' = r.d.entries
           /\ indices' = r.d.indices
    /\ dupAdded' = (dupAdded \/ v \in DOMAIN indices)
    /\ UNCHANGED <<unioned, addTrue, track>>
    /\ UNCHANGED graphVars
    /\ UNCHANGED fastVars

Add(v) ==
    /\ Room({v})
    /\ LET r == DSU_add(D, v)
       IN  /\ entries' = r.d.entries
           /\ indices' = r.d.indices
           /\ addTrue' = IF r.ret /\ track = "add"
                         THEN [addTrue EXCEPT ![v] = Bump(@)]
                         ELSE addTrue
    /\ UNCHANGED <<unioned, dupAdded, track>>
    /\ UNCHANGED graphVars
    /\ UNCHANGED fastVars

FindUnchecked(v) ==
    /\ v \in DOMAIN indices
    /\ LET r == DSU_find_unchecked(D, v)
       IN  /\ entries' = r.d.entries
           /\ indices' = r.d.indices
    /\ UNCHANGED <<unioned, dupAdded, addTrue, track>>
    /\ UNCHANGED graphVars
    /\ UNCHANGED fastVars

Find(v) ==
    /\ Room({v})
    /\ LET r == DSU_find(D, v)
       IN  /\ entries' = r.d.entries
           /\ indices' = r.d.indices
    /\ UNCHANGED <<unioned, dupAdded, addTrue, track>>
    /\ UNCHANGED graphVars
    /\ UNCHANGED fastVars

UnionUnchecked(x, y) ==
    /\ x \in DOMAIN indices
    /\ y \in DOMAIN indices
    /\ LET r == DSU_union_unchecked(D, x, y)
       IN  /\ entries' = r.d.entries
           /\ indices' = r.d.indices
    /\ unioned' = IF track = "union" THEN unioned \cup Pair(x, y) ELSE unioned
    /\ UNCHANGED <<dupAdded, addTrue, track>>
    /\ UNCHANGED graphVars
    /\ UNCHANGED fastVars

Union(x, y) ==
    /\ Room({x, y})
    /\ LET r == DSU_union(D, x, y)
       IN  /\ entries' = r.d.entries
           /\ indices' = r.d.indices
    /\ unioned' = IF track = "union" THEN unioned \cup Pair(x, y) ELSE unioned
    /\ UNCHANGED <<dupAdded, addTrue, track>>
    /\ UNCHANGED graphVars
    /\ UNCHANGED fastVars

NextDSU ==
    \/ \E v \in Keys : AddUnchecked(v)
    \/ \E v \in Keys : Add(v)
    \/ \E v \in Keys : FindUnchecked(v)
    \/ \E v \in Keys : Find(v)
    \/ \E x, y \in Keys : UnionUnchecked(x, y)
    \/ \E x, y \in Keys : Union(x, y)

SpecDSU == InitDSU /\ [][NextDSU]_vars

SpecDSUAdd == InitDSUAdd /\ [][NextDSU]_vars

(***************************************************************************)
(* Properties of the generic DSU.                                          *)
(***************************************************************************)
\* the Rust expression dsu.find(a) == dsu.find(b): two calls, left to right
SameFind(d, a, b) ==
    LET fa == DSU_find(d, a)
        fb == DSU_find(fa.d, b)
    IN  fa.ret = fb.ret

\* a and b are connected by the reflexive-symmetric-transitive closure of the
\* pairs passed to union so far
RECURSIVE Reach(_, _)
Reach(S, n) ==
    LET T == S \cup UNION {p \in unioned : p \cap S # {}}
    IN  IF n = 0 \/ T = S THEN S ELSE Reach(T, n - 1)

Connected(a, b) == b \in Reach({a}, NumKeys)

\* C1 as stated: every pair of keys passed to union (or union_unchecked) so
\* far has find(x) == find(y), whatever add/find/union operations came after.
C1_UnionedStayJoined ==
    \A p \in unioned : \A x, y \in p : SameFind(D, x, y)

\* A call of union(x, y), or of union_unchecked(x, y) on present keys, from any
\* reachable state leaves find(x) == find(y).
C1_UnionJoins ==
    \A x, y \in Keys :
        /\ SameFind(DSU_union(D, x, y).d, x, y)
        /\ (x \in DOMAIN indices /\ y \in DOMAIN indices)
              => SameFind(DSU_union_unchecked(D, x, y).d, x, y)

\* A step that does not give x or y a new slot (add_unchecked of a present
\* key) keeps find(x) == find(y).
C1_Stays ==
    \A x, y \in DOMAIN indices :
        (/\ x < y
         /\ indices'[x] = indices[x]
         /\ indices'[y] = indices[y]
         /\ SameFind(D, x, y)) => SameFind(DP, x, y)

\* C1 (amended): immediately after union(x, y) (or union_unchecked(x, y) on
\* present keys) find(x) == find(y), and the equality still holds after any
\* further add, find or union operation, add_unchecked included, except an
\* add_unchecked of x or of y itself while that key is present.
C1_JoinedUntilReAdded == [] C1_UnionJoins /\ [][C1_Stays]_vars

\* a pair was unioned, a later union joined another pair, and the first pair
\* still has equal roots
C1_Witness ==
    /\ Cardinality(unioned) >= 2
    /\ Len(entries) = MaxEntries
    /\ \A p \in unioned : \A x, y \in p : SameFind(D, x, y)

\* C2 as stated: in any sequence of operations add(v) returns true exactly
\* once, so while add(v) has not yet returned true the next add(v) does.
C2_FirstAddReturnsTrue ==
    \A v \in Keys : addTrue[v] = 0 => DSU_add(D, v).ret

\* C2 (amended): add(v) returns true at most once per key, namely exactly when
\* v is not yet present (not inserted before by add, add_unchecked, find or
\* union); on a present key it returns false and changes nothing, so find(v)
\* is unchanged.
C2_AddOncePerAbsentKey ==
    \A v \in Keys :
        LET r == DSU_add(D, v)
        IN  /\ addTrue[v] <= 1
            /\ addTrue[v] = 1 => ~r.ret
            /\ r.ret <=> v \notin DOMAIN indices
            /\ ~r.ret => /\ r.d = D
                         /\ DSU_find(r.d, v).ret = DSU_find(D, v).ret
            /\ r.ret => v \in DOMAIN r.d.indices

\* add(v) has returned true for one key, and another key is present without
\* add ever having returned true for it (find or union inserted it)
C2_Witness ==
    \E v, w \in DOMAIN indices :
        /\ addTrue[v] = 1
        /\ addTrue[w] = 0
        /\ ~DSU_add(D, v).ret

\* C3: while no key was inserted twice, find(a) == find(b) exactly when a and b
\* are connected by the closure of the pairs passed to union so far.
C3_FindIsUnionClosure ==
    ~dupAdded => \A a, b \in Keys : SameFind(D, a, b) <=> Connected(a, b)

\* all keys are present, each inserted once, one pair was unioned and the
\* third key is in a component of its own
C3_Witness ==
    /\ ~dupAdded
    /\ DOMAIN indices = Keys
    /\ Cardinality(unioned) = 1
    /\ \E a, b \in Keys : a # b /\ SameFind(D, a, b)
    /\ \E a, b \in Keys : ~SameFind(D, a, b)

\* the partition of the keys is the same in d and e
SamePartition(d, e) ==
    \A a, b \in Keys : SameFind(d, a, b) <=> SameFind(e, a, b)

\* C4: union(x, y) returns true iff x and y were in different components just
\* before the call (an absent key being a fresh singleton), false otherwise,
\* also for union(x, x); when it returns false the partition is unchanged.
C4_UnionReturnsMerged ==
    \A x, y \in Keys :
        LET r == DSU_union(D, x, y)
        IN  /\ r.ret <=> ~SameFind(D, x, y)
            /\ ~DSU_union(D, x, x).ret
            /\ ~r.ret => SamePartition(D, r.d)

\* after a union, there are keys x # y for which union returns false and a
\* key z for which union(x, z) returns true
C4_Witness ==
    /\ unioned # {}
    /\ \E x, y, z \in DOMAIN indices :
          /\ x # y
          /\ ~DSU_union(D, x, y).ret
          /\ DSU_union(D, x, z).ret

(***************************************************************************)
(* general_graph.rs: FastDSU, the size-balanced union-find behind lcc.     *)
(* `parent` is a function from the tracked ids to entries Id(px) or        *)
(* Num(size); every method is an operator on that function.  FastDSU_new   *)
(* stands with the initial state above.                                    *)
(***************************************************************************)
Id(px) == [tag |-> "Id", v |-> px]

Num(num) == [tag |-> "Num", v |-> num]

FastDSU_add(parent, x) == MapInsert(parent, x, Num(1))

RECURSIVE FastDSU_find(_, _)
FastDSU_find(parent, x) ==
    IF parent[x].tag = "Num" THEN x ELSE FastDSU_find(parent, parent[x].v)

RECURSIVE FastDSU_find_all(_, _)
FastDSU_find_all(parent, x) ==
    IF parent[x].tag = "Num"
    THEN [root |-> x, num |-> parent[x].v, parent |-> parent]
    ELSE LET r == FastDSU_find_all(parent, parent[x].v)
         IN  [root |-> r.root, num |-> r.num,
              parent |-> MapInsert(r.parent, x, Id(r.root))]

\* a union that links y's root under x's root whatever the sizes are, and
\* keeps x's size
FastDSU_union_no_size(parent, x0, y0) ==
    LET fx == FastDSU_find_all(parent, x0)
        fy == FastDSU_find_all(fx.parent, y0)
    IN  IF fx.root # fy.root
        THEN [ret |-> TRUE, parent |-> MapInsert(fy.parent, fy.root, Id(fx.root))]
        ELSE [ret |-> FALSE, parent |-> fy.parent]

\* a union whose surviving root counts the linked root, not its tree
FastDSU_union_size_plus_one(parent, x0, y0) ==
    LET fx == FastDSU_find_all(parent, x0)
        fy == FastDSU_find_all(fx.parent, y0)
        x == fx.root
        y == fy.root
    IN  IF x # y
        THEN IF fx.num < fy.num
             THEN [ret |-> TRUE,
                   parent |-> MapInsert(MapInsert(fy.parent, x, Id(y)),
                                        y, Num(fy.num + 1))]
             ELSE [ret |-> TRUE,
                   parent |-> MapInsert(MapInsert(fy.parent, y, Id(x)),
                                        x, Num(fx.num + 1))]
        ELSE [ret |-> FALSE, parent |-> fy.parent]

\* a union that links x's root under y's root on a tie as well
FastDSU_union_tie_y(parent, x0, y0) ==
    LET fx == FastDSU_find_all(parent, x0)
        fy == FastDSU_find_all(fx.parent, y0)
        x == fx.root
        y == fy.root
    IN  IF x # y
        THEN IF fx.num <= fy.num
             THEN [ret |-> TRUE,
                   parent |-> MapInsert(MapInsert(fy.parent, x, Id(y)),
                                        y, Num(fx.num + fy.num))]
             ELSE [ret |-> TRUE,
                   parent |-> MapInsert(MapInsert(fy.parent, y, Id(x)),
                                        x, Num(fx.num + fy.num))]
        ELSE [ret |-> FALSE, parent |-> fy.parent]

\* a union that links the larger tree under the smaller
FastDSU_union_larger_under(parent, x0, y0) ==
    LET fx == FastDSU_find_all(parent, x0)
        fy == FastDSU_find_all(fx.parent, y0)
        x == fx.root
        y == fy.root
    IN  IF x # y
        THEN IF fx.num > fy.num
             THEN [ret |-> TRUE,
                   parent |-> MapInsert(MapInsert(fy.parent, x, Id(y)),
                                        y, Num(fx.num + fy.num))]
             ELSE [ret |-> TRUE,
                   parent |-> MapInsert(MapInsert(fy.parent, y, Id(x)),
                                        x, Num(fx.num + fy.num))]
        ELSE [ret |-> FALSE, parent |-> fy.parent]

FastDSU_union(parent, x0, y0) ==
    LET fx == FastDSU_find_all(parent, x0)
        fy == FastDSU_find_all(fx.parent, y0)
        x == fx.root
        y == fy.root
    IN  IF x # y
        THEN IF fx.num < fy.num
             THEN [ret |-> TRUE,
                   parent |-> MapInsert(MapInsert(fy.parent, x, Id(y)),
                                        y, Num(fx.num + fy.num))]
             ELSE [ret |-> TRUE,
                   parent |-> MapInsert(MapInsert(fy.parent, y, Id(x)),
                                        x, Num(fx.num + fy.num))]
        ELSE [ret |-> FALSE, parent |-> fy.parent]

\* the key of max_by_key: -1 for a linked entry, the size for a root
RetainKey(e) == IF e.tag = "Id" THEN -1 ELSE e.v

\* a max_by_key whose unwrap falls back to id 0 when there is no entry
FastDSU_max_by_key_or_zero(parent) ==
    IF DOMAIN parent = {}
    THEN {0}
    ELSE {x \in DOMAIN parent :
             \A y \in DOMAIN parent : RetainKey(parent[y]) <= RetainKey(parent[x])}

\* max_by_key over the map's iteration order returns the last maximal entry
\* of that order: under some order, any id whose key is maximal; the empty
\* set stands for None, on which retain_map's unwrap panics
FastDSU_max_by_key(parent) ==
    {x \in DOMAIN parent :
        \A y \in DOMAIN parent : RetainKey(parent[y]) <= RetainKey(parent[x])}

\* a retain_map that looks at the entry of x, not at find(x)
FastDSU_retain_map_direct(parent, root) ==
    [x \in DOMAIN parent |-> x = root \/ parent[x] = Id(root)]

\* retain_map, given the entry `root` that max_by_key returned
FastDSU_retain_map(parent, root) ==
    [x \in DOMAIN parent |-> FastDSU_find(parent, x) = root]

(***************************************************************************)
(***************************************************************************)
(* FastDSU as a state machine: one action per method.  find, find_all and  *)
(* union index the map with their arguments, which panics on an id that    *)
(* is not tracked: they are called on tracked ids.  add may be given a     *)
(* tracked id again (the entry becomes Num(1)); freadds counts these       *)
(* calls.                                                                  *)
(***************************************************************************)
\* largest id handed to the FastDSU
MaxFastId == 3
\* how often add may be given a tracked id
MaxReAdd == 1

FastIds == 0 .. MaxFastId

FAdd(x) ==
    /\ x \in DOMAIN fparent => freadds < MaxReAdd
    /\ fparent' = FastDSU_add(fparent, x)
    /\ freadds' = IF x \in DOMAIN fparent THEN freadds + 1 ELSE freadds
    /\ UNCHANGED fjoins
    /\ UNCHANGED dsuVars
    /\ UNCHANGED graphVars

\* find takes &self and changes nothing
FFind(x) ==
    /\ x \in DOMAIN fparent
    /\ FastDSU_find(fparent, x) \in DOMAIN fparent
    /\ UNCHANGED fastVars
    /\ UNCHANGED dsuVars
    /\ UNCHANGED graphVars

FFindAll(x) ==
    /\ x \in DOMAIN fparent
    /\ fparent' = FastDSU_find_all(fparent, x).parent
    /\ UNCHANGED <<freadds, fjoins>>
    /\ UNCHANGED dsuVars
    /\ UNCHANGED graphVars

FUnion(x, y) ==
    /\ x \in DOMAIN fparent
    /\ y \in DOMAIN fparent
    /\ LET r == FastDSU_union(fparent, x, y)
       IN  /\ fparent' = r.parent
           /\ fjoins' = IF r.ret THEN fjoins + 1 ELSE fjoins
    /\ UNCHANGED freadds
    /\ UNCHANGED dsuVars
    /\ UNCHANGED graphVars

\* retain_map takes &self; without an entry its unwrap panics
FRetainMap ==
    /\ DOMAIN fparent # {}
    /\ \E root \in FastDSU_max_by_key(fparent) :
          DOMAIN FastDSU_retain_map(fparent, root) = DOMAIN fparent
    /\ UNCHANGED fastVars
    /\ UNCHANGED dsuVars
    /\ UNCHANGED graphVars

InitFast == InitFastVars /\ InitDSUVars /\ track = "none" /\ InitGraphVars

NextFast ==
    \/ \E x \in FastIds : FAdd(x)
    \/ \E x \in FastIds : FFind(x)
    \/ \E x \in FastIds : FFindAll(x)
    \/ \E x, y \in FastIds : FUnion(x, y)
    \/ FRetainMap

SpecFast == InitFast /\ [][NextFast]_vars

(* general_graph.rs: GeneralUndiGraph, the sparse graph.  A graph is the   *)
(* record [nodes, edges]; an edge is a pair <<u, v>>.                      *)
(***************************************************************************)
\* largest node label handed to add_edge
MaxLabel == 3
\* largest number of edges a sparse graph may hold
MaxEdges == 5

Labels == 0 .. MaxLabel

GeneralUndiGraph_new == [nodes |-> {}, edges |-> {}]

GeneralUndiGraph_num_nodes(g) == Cardinality(g.nodes)

GeneralUndiGraph_num_edges(g) == Cardinality(g.edges)

\* an add_edge that inserts the endpoints before it tests u == v
GeneralUndiGraph_add_edge_nodes_first(g, u, v) ==
    IF u = v
    THEN [nodes |-> g.nodes \cup {u}, edges |-> g.edges]
    ELSE [nodes |-> g.nodes \cup {u, v},
          edges |-> g.edges \cup (IF u < v THEN {<<u, v>>} ELSE {<<v, u>>})]

\* an add_edge that stores the pair as it was given
GeneralUndiGraph_add_edge_as_given(g, u, v) ==
    IF u = v
    THEN g
    ELSE [nodes |-> g.nodes \cup {u, v}, edges |-> g.edges \cup {<<u, v>>}]

GeneralUndiGraph_add_edge(g, u, v) ==
    IF u = v
    THEN g
    ELSE [nodes |-> g.nodes \cup {u, v},
          edges |-> g.edges \cup (IF u < v THEN {<<u, v>>} ELSE {<<v, u>>})]

\* the orders in which a HashSet or HashMap may iterate over the set S
RECURSIVE IterOrders(_)
IterOrders(S) ==
    IF S = {}
    THEN {<<>>}
    ELSE UNION {{<<x>> \o o : o \in IterOrders(S \ {x})} : x \in S}

\* A for loop over the sequence items: st := Body(st, item) for each item in
\* order.  The range is split in halves and the left half is evaluated (by
\* the test on it) before the right half is entered, which keeps the
\* evaluation shallow; the items are still folded left to right.
ForEach(Body(_, _), st0, items) ==
    LET RECURSIVE Range(_, _, _)
        Range(st, lo, hi) ==
            IF lo > hi
            THEN st
            ELSE IF lo = hi
                 THEN Body(st, items[lo])
                 ELSE LET mid == (lo + hi) \div 2
                          left == Range(st, lo, mid)
                      IN  IF left = left THEN Range(left, mid + 1, hi) ELSE st
    IN  Range(st0, 1, Len(items))

\* lcc, first loop: dsu.add(*u) for u in the iteration order us
LccAddNodes(parent, us) ==
    ForEach(LAMBDA p, u : FastDSU_add(p, u), parent, us)

\* lcc, second loop: dsu.union(*u, *v) for (u, v) in the iteration order es
LccUnionEdges(parent, es) ==
    ForEach(LAMBDA p, e : FastDSU_union(p, e[1], e[2]).parent, parent, es)

\* an lcc that filters the node set only
GeneralUndiGraph_lcc_keep_edges(g, parent, root) ==
    LET rmap == FastDSU_retain_map(parent, root)
    IN  [nodes |-> {u \in g.nodes : rmap[u]}, edges |-> g.edges]

\* lcc, given the FastDSU it built and the entry `root` that retain_map's
\* max_by_key returned
GeneralUndiGraph_lcc(g, parent, root) ==
    LET rmap == FastDSU_retain_map(parent, root)
    IN  [nodes |-> {u \in g.nodes : rmap[u]},
         edges |-> {e \in g.edges : rmap[e[1]] /\ rmap[e[2]]}]

\* from_file: a line is a comment (it starts with # or %) or a data line with
\* its tokens parsed as unsigned integers; the first two tokens are the edge
GeneralUndiGraph_from_file(lines) ==
    ForEach(LAMBDA g, line : IF line.comment
                             THEN g
                             ELSE GeneralUndiGraph_add_edge(g, line.toks[1], line.toks[2]),
            GeneralUndiGraph_new, lines)

(***************************************************************************)
(* normal_graph.rs: NormalUndiGraph, the compact graph.  A graph is the    *)
(* record [name, n, m, adjs]; adjs[u + 1] is the adjacency list of node u. *)
(***************************************************************************)
\* largest generation count handed to a generator
MaxGen == 2
\* largest number m of bridging nodes per edge handed to from_pseudo_ext
MaxBridge == 2

\* Vec::push on the adjacency list of node u
Push(adjs, u, v) == [adjs EXCEPT ![u + 1] = Append(@, v)]

RECURSIVE SortedInsert(_, _)
SortedInsert(s, x) ==
    IF s = <<>>
    THEN <<x>>
    ELSE IF x <= Head(s)
         THEN <<x>> \o s
         ELSE <<Head(s)>> \o SortedInsert(Tail(s), x)

\* slice::sort_unstable on integers: the ascending arrangement of the list
RECURSIVE sort_unstable(_)
sort_unstable(s) ==
    IF s = <<>> THEN s ELSE SortedInsert(sort_unstable(Tail(s)), Head(s))

SetMax(S) == CHOOSE x \in S : \A y \in S : y <= x

\* from_general: the test that decides whether the labels are renumbered
Renumber(g) == SetMax(g.nodes) + 1 # GeneralUndiGraph_num_nodes(g)

\* HashMap::entry(k).or_insert(v)
OrInsert(m, k, v) == IF k \in DOMAIN m THEN m ELSE MapInsert(m, k, v)

\* from_general, body of the first loop: the degrees and, when renumbering,
\* the map o2n from labels to ids in first-seen order
FromGeneralDegs(st, e, renumber) ==
    LET u == e[1]
        v == e[2]
    IN  IF renumber
        THEN LET o1 == OrInsert(st.o2n, u, Cardinality(DOMAIN st.o2n))
                 o2 == OrInsert(o1, v, Cardinality(DOMAIN o1))
                 d1 == [st.degs EXCEPT ![o1[u] + 1] = @ + 1]
                 d2 == [d1 EXCEPT ![o2[v] + 1] = @ + 1]
             IN  [o2n |-> o2, degs |-> d2]
        ELSE LET d1 == [st.degs EXCEPT ![u + 1] = @ + 1]
                 d2 == [d1 EXCEPT ![v + 1] = @ + 1]
             IN  [o2n |-> st.o2n, degs |-> d2]

\* from_general, body of the second loop: both directions of the edge are
\* pushed
FromGeneralAdjs(adjs, o2n, e, renumber) ==
    LET u == IF renumber THEN o2n[e[1]] ELSE e[1]
        v == IF renumber THEN o2n[e[2]] ELSE e[2]
    IN  Push(Push(adjs, u, v), v, u)

\* from_general up to the sort: the locals after the two loops over the
\* iteration order es of g.edges
FromGeneralLocals(g, es) ==
    LET n == GeneralUndiGraph_num_nodes(g)
        renumber == Renumber(g)
        st == ForEach(LAMBDA a, e : FromGeneralDegs(a, e, renumber),
                      [o2n |-> <<>>, degs |-> [u \in 1 .. n |-> 0]], es)
    IN  [o2n |-> st.o2n,
         degs |-> st.degs,
         adjs |-> ForEach(LAMBDA a, e : FromGeneralAdjs(a, st.o2n, e, renumber),
                          [u \in 1 .. n |-> <<>>], es)]

\* a from_general that leaves the adjacency lists in push order
from_general_unsorted(g, es) ==
    LET n == GeneralUndiGraph_num_nodes(g)
    IN  IF n = 0
        THEN [name |-> <<"EmptyGraph">>, n |-> 0, m |-> 0, adjs |-> <<>>]
        ELSE [name |-> <<"General">>, n |-> n,
              m |-> GeneralUndiGraph_num_edges(g),
              adjs |-> FromGeneralLocals(g, es).adjs]

\* a from_general that keeps only one direction of every edge
from_general_one_way(g, es) ==
    LET n == GeneralUndiGraph_num_nodes(g)
    IN  IF n = 0
        THEN [name |-> <<"EmptyGraph">>, n |-> 0, m |-> 0, adjs |-> <<>>]
        ELSE LET adjs == FromGeneralLocals(g, es).adjs
             IN  [name |-> <<"General">>, n |-> n,
                  m |-> GeneralUndiGraph_num_edges(g),
                  adjs |-> [u \in 1 .. n |->
                              sort_unstable(SelectSeq(adjs[u], LAMBDA v : v > u - 1))]]

\* from_general for the iteration order es of g.edges (the loops over
\* &g.edges see the same order: the set is not modified in between)
from_general(g, es) ==
    LET n == GeneralUndiGraph_num_nodes(g)
    IN  IF n = 0
        THEN [name |-> <<"EmptyGraph">>, n |-> 0, m |-> 0, adjs |-> <<>>]
        ELSE LET adjs == FromGeneralLocals(g, es).adjs
             IN  [name |-> <<"General">>, n |-> n,
                  m |-> GeneralUndiGraph_num_edges(g),
                  adjs |-> [u \in 1 .. n |-> sort_unstable(adjs[u])]]

\* from_apollo, the locals before the first generation
ApolloStart ==
    [triangles |-> << <<0, 1, 2>>, <<0, 1, 3>>, <<0, 2, 3>>, <<1, 2, 3>> >>,
     active_triangles |-> << <<0, 1, 2>>, <<0, 1, 3>>, <<0, 2, 3>>, <<1, 2, 3>> >>,
     adjs |-> << <<1, 2, 3>>, <<0, 2, 3>>, <<0, 1, 3>>, <<0, 1, 2>> >>,
     n |-> 4,
     m |-> 6]

\* from_apollo, body of the inner loop: the active face (x, y, z) gets the new
\* node n
ApolloFace(st, t) ==
    LET x == t[1]
        y == t[2]
        z == t[3]
        n == st.n
    IN  [new_triangles |-> st.new_triangles
                             \o << <<x, y, n>>, <<x, z, n>>, <<y, z, n>> >>,
         adjs |-> Append(Push(Push(Push(st.adjs, x, n), y, n), z, n), <<x, y, z>>),
         n |-> n + 1]

\* from_apollo, the inner loop over the active faces
ApolloFaces(st, active) == ForEach(ApolloFace, st, active)

\* a generation that keeps the old faces active beside the new ones
ApolloGenerationKeepActive(st) ==
    LET r == ApolloFaces([new_triangles |-> <<>>, adjs |-> st.adjs, n |-> st.n],
                         st.active_triangles)
    IN  [triangles |-> st.triangles \o r.new_triangles,
         active_triangles |-> st.active_triangles \o r.new_triangles,
         adjs |-> r.adjs,
         n |-> r.n,
         m |-> st.m + Len(r.new_triangles)]

\* from_apollo, one pass of the outer loop
ApolloGeneration(st) ==
    LET r == ApolloFaces([new_triangles |-> <<>>, adjs |-> st.adjs, n |-> st.n],
                         st.active_triangles)
    IN  [triangles |-> st.triangles \o r.new_triangles,
         active_triangles |-> r.new_triangles,
         adjs |-> r.adjs,
         n |-> r.n,
         m |-> st.m + Len(r.new_triangles)]

\* from_apollo, the locals after g passes of the outer loop
RECURSIVE ApolloLocals(_)
ApolloLocals(g) ==
    IF g = 0 THEN ApolloStart ELSE ApolloGeneration(ApolloLocals(g - 1))

from_apollo(g) ==
    LET st == ApolloLocals(g)
    IN  [name |-> <<"Apollo", g>>, n |-> st.n, m |-> st.m, adjs |-> st.adjs]

\* from_koch, body of the inner loop: the triangle (x, y, z) gets six new nodes
KochTriangle(st, t) ==
    LET x == t[1]
        y == t[2]
        z == t[3]
        n == st.n
    IN  [new_triangles |-> st.new_triangles
                             \o << <<x, n, n + 1>>, <<y, n + 2, n + 3>>,
                                   <<z, n + 4, n + 5>> >>,
         n |-> n + 6]

\* from_koch, the inner loop over the triangles
KochTriangles(st, triangles) == ForEach(KochTriangle, st, triangles)

\* a generation that replaces the triangles by the new ones
KochGenerationReplace(st) ==
    LET r == KochTriangles([new_triangles |-> <<>>, n |-> st.n], st.triangles)
    IN  [triangles |-> r.new_triangles, n |-> r.n]

\* from_koch, one pass of the outer loop: the new triangles are appended
KochGeneration(st) ==
    LET r == KochTriangles([new_triangles |-> <<>>, n |-> st.n], st.triangles)
    IN  [triangles |-> st.triangles \o r.new_triangles, n |-> r.n]

\* from_koch, the locals after g passes of the outer loop
RECURSIVE KochLocals(_)
KochLocals(g) ==
    IF g = 0
    THEN [triangles |-> << <<0, 1, 2>> >>, n |-> 3]
    ELSE KochGeneration(KochLocals(g - 1))

\* Vec::append of the list vs to the adjacency list of node u
Extend(adjs, u, vs) == [adjs EXCEPT ![u + 1] = @ \o vs]

\* from_koch, body of the last loop: the adjacency lists of a triangle
KochAdj(adjs, t) ==
    LET x == t[1]
        y == t[2]
        z == t[3]
    IN  Extend(Extend(Extend(adjs, x, <<y, z>>), y, <<x, z>>), z, <<x, y>>)

\* a from_koch that stores the triangle count as m
from_koch_m_triangles(g) ==
    LET st == KochLocals(g)
        adjs0 == [u \in 1 .. st.n |-> <<>>]
    IN  [name |-> <<"Koch", g>>,
         n    |-> st.n,
         m    |-> Len(st.triangles),
         adjs |-> ForEach(KochAdj, adjs0, st.triangles)]

from_koch(g) ==
    LET st == KochLocals(g)
    IN  [name |-> <<"Koch", g>>,
         n |-> st.n,
         m |-> 3 * Len(st.triangles),
         adjs |-> ForEach(KochAdj, [u \in 1 .. st.n |-> <<>>], st.triangles)]

\* _from_pseudo_ext, innermost loop: m bridging nodes for the edge (u, v)
RECURSIVE PseudoBridges(_, _, _, _)
PseudoBridges(st, u, v, k) ==
    IF k = 0
    THEN st
    ELSE PseudoBridges([new_edges |-> st.new_edges \o << <<u, st.n>>, <<v, st.n>> >>,
                        n |-> st.n + 1],
                       u, v, k - 1)

\* _from_pseudo_ext, loop over the edges of one generation
PseudoEdges(st, edges0, m) ==
    ForEach(LAMBDA a, e : PseudoBridges(a, e[1], e[2], m), st, edges0)

\* a generation that bridges every edge once, whatever m is
PseudoGenerationOneBridge(st, m) ==
    LET r == PseudoEdges([new_edges |-> <<>>, n |-> st.n], st.edges, 1)
    IN  [edges |-> st.edges \o r.new_edges, n |-> r.n]

\* _from_pseudo_ext, one pass of the outer loop
PseudoGeneration(st, m) ==
    LET r == PseudoEdges([new_edges |-> <<>>, n |-> st.n], st.edges, m)
    IN  [edges |-> st.edges \o r.new_edges, n |-> r.n]

\* _from_pseudo_ext, the locals after g passes of the outer loop
RECURSIVE PseudoLocals(_, _)
PseudoLocals(m, g) ==
    IF g = 0
    THEN [edges |-> << <<0, 1>>, <<0, 2>>, <<1, 2>> >>, n |-> 3]
    ELSE PseudoGeneration(PseudoLocals(m, g - 1), m)

\* _from_pseudo_ext, body of the last loop: both directions of the edge
PseudoAdj(adjs, e) == Push(Push(adjs, e[1], e[2]), e[2], e[1])

from_pseudo_ext_(m, g, name) ==
    LET st == PseudoLocals(m, g)
    IN  [name |-> name,
         n |-> st.n,
         m |-> Len(st.edges),
         adjs |-> ForEach(PseudoAdj, [u \in 1 .. st.n |-> <<>>], st.edges)]

from_pseudo_ext(m, g) == from_pseudo_ext_(m, g, <<"PseudoExt", m, g>>)

from_pseudofractal(g) == from_pseudo_ext_(1, g, <<"Pseudofractal", g>>)

(***************************************************************************)
(* The graphs as a state machine: a sparse graph is started (new,          *)
(* from_file), grown by add_edge and filtered by lcc; a constructor of the *)
(* compact graph (from_general on the sparse graph, or a generator) then   *)
(* builds ng, which has no mutating operation; a panic of lcc ends the    *)
(* run (gop = "lcc_panic"); new or from_file starts over.  A generator     *)
(* reads nothing of the sparse graph: it is run while that graph is still  *)
(* empty.                                                                  *)
(***************************************************************************)
G == [nodes |-> nodes, edges |-> edges]

GP == [nodes |-> nodes', edges |-> edges']

Comment == [comment |-> TRUE, toks |-> <<>>]

Data(toks) == [comment |-> FALSE, toks |-> toks]

\* edge streams: two disjoint triangles (with a comment line, a reversed
\* pair, a repeated edge and a trailing token), and the input of
\* tests::test_diag_adj
Files ==
    { << Comment, Data(<<0, 1>>), Data(<<1, 2>>), Data(<<2, 0, 7>>), Data(<<3, 4>>),
         Data(<<4, 5>>), Comment, Data(<<5, 3>>), Data(<<1, 0>>) >>,
      << Data(<<0, 1>>), Data(<<0, 2>>), Data(<<0, 3>>), Data(<<1, 3>>) >> }

\* the FastDSU states lcc can build, over the iteration orders of the node set
\* (first loop) and of the edge set (second loop)
LccDSUs(g) ==
    LET added == {LccAddNodes(FastDSU_new, us) : us \in IterOrders(g.nodes)}
    IN  UNION {{LccUnionEdges(p0, es) : es \in IterOrders(g.edges)} : p0 \in added}

\* union indexes the map with both ends of every edge (find_all, parent[&x]),
\* and the filters index the retain map, whose keys are the map's: an id that
\* was not added panics
LccIndexPanics(g) ==
    \E p0 \in {LccAddNodes(FastDSU_new, us) : us \in IterOrders(g.nodes)} :
        \E e \in g.edges : e[1] \notin DOMAIN p0 \/ e[2] \notin DOMAIN p0

\* retain_map unwraps the entry max_by_key returns: None panics
LccUnwrapPanics(parent) == FastDSU_max_by_key(parent) = {}

New ==
    /\ nodes' = GeneralUndiGraph_new.nodes
    /\ edges' = GeneralUndiGraph_new.edges
    /\ ng' = NoGraph
    /\ gop' = "new"
    /\ UNCHANGED dsuVars
    /\ UNCHANGED fastVars

FromFile(lines) ==
    /\ LET g == GeneralUndiGraph_from_file(lines)
       IN  nodes' = g.nodes /\ edges' = g.edges
    /\ ng' = NoGraph
    /\ gop' = "from_file"
    /\ UNCHANGED dsuVars
    /\ UNCHANGED fastVars

AddEdge(u, v) ==
    /\ ng = NoGraph
    /\ gop # "lcc_panic"
    /\ LET g == GeneralUndiGraph_add_edge(G, u, v)
       IN  /\ GeneralUndiGraph_num_edges(g) <= MaxEdges
           /\ nodes' = g.nodes
           /\ edges' = g.edges
    /\ gop' = "add_edge"
    /\ UNCHANGED ng
    /\ UNCHANGED dsuVars
    /\ UNCHANGED fastVars

\* lcc returns the filtered graph, or panics; a panic ends the run
Lcc ==
    /\ ng = NoGraph
    /\ gop # "lcc_panic"
    /\ IF LccIndexPanics(G)
       THEN /\ gop' = "lcc_panic"
            /\ UNCHANGED <<nodes, edges>>
       ELSE \E parent \in LccDSUs(G) :
                IF LccUnwrapPanics(parent)
                THEN /\ gop' = "lcc_panic"
                     /\ UNCHANGED <<nodes, edges>>
                ELSE /\ \E root \in FastDSU_max_by_key(parent) :
                           LET g == GeneralUndiGraph_lcc(G, parent, root)
                           IN  nodes' = g.nodes /\ edges' = g.edges
                     /\ gop' = "lcc"
    /\ UNCHANGED ng
    /\ UNCHANGED dsuVars
    /\ UNCHANGED fastVars

FromGeneral ==
    /\ ng = NoGraph
    /\ gop # "lcc_panic"
    /\ \E es \in IterOrders(edges) : ng' = from_general(G, es)
    /\ gop' = "from_general"
    /\ UNCHANGED <<nodes, edges>>
    /\ UNCHANGED dsuVars
    /\ UNCHANGED fastVars

FromApollo(g) ==
    /\ ng = NoGraph
    /\ gop # "lcc_panic"
    /\ nodes = {}
    /\ ng' = from_apollo(g)
    /\ gop' = "from_apollo"
    /\ UNCHANGED <<nodes, edges>>
    /\ UNCHANGED dsuVars
    /\ UNCHANGED fastVars

FromKoch(g) ==
    /\ ng = NoGraph
    /\ gop # "lcc_panic"
    /\ nodes = {}
    /\ ng' = from_koch(g)
    /\ gop' = "from_koch"
    /\ UNCHANGED <<nodes, edges>>
    /\ UNCHANGED dsuVars
    /\ UNCHANGED fastVars

FromPseudoExt(m, g) ==
    /\ ng = NoGraph
    /\ gop # "lcc_panic"
    /\ nodes = {}
    /\ ng' = from_pseudo_ext(m, g)
    /\ gop' = "from_pseudo_ext"
    /\ UNCHANGED <<nodes, edges>>
    /\ UNCHANGED dsuVars
    /\ UNCHANGED fastVars

FromPseudofractal(g) ==
    /\ ng = NoGraph
    /\ gop # "lcc_panic"
    /\ nodes = {}
    /\ ng' = from_pseudofractal(g)
    /\ gop' = "from_pseudofractal"
    /\ UNCHANGED <<nodes, edges>>
    /\ UNCHANGED dsuVars
    /\ UNCHANGED fastVars

InitGraph == InitGraphVars /\ InitDSUVars /\ track = "none" /\ InitFastVars

NextGraph ==
    \/ New
    \/ \E lines \in Files : FromFile(lines)
    \/ \E u, v \in Labels : AddEdge(u, v)
    \/ Lcc
    \/ FromGeneral
    \/ \E g \in 0 .. MaxGen : FromApollo(g)
    \/ \E g \in 0 .. MaxGen : FromKoch(g)
    \/ \E m \in 0 .. MaxBridge, g \in 0 .. MaxGen : FromPseudoExt(m, g)
    \/ \E g \in 0 .. MaxGen : FromPseudofractal(g)

SpecGraph == InitGraph /\ [][NextGraph]_vars

(***************************************************************************)
(* Properties of lcc.                                                      *)
(***************************************************************************)
\* the nodes of g connected to a node of S, found from the edges alone
RECURSIVE GraphReach(_, _)
GraphReach(g, S) ==
    LET T == S \cup {v \in g.nodes :
                        \E e \in g.edges : \/ e[1] \in S /\ e[2] = v
                                           \/ e[2] \in S /\ e[1] = v}
    IN  IF T = S THEN S ELSE GraphReach(g, T)

Components(g) == {GraphReach(g, {u}) : u \in g.nodes}

\* h is g restricted to one of its connected components of maximum node count
IsLargestComponent(g, h) ==
    /\ h.nodes \in Components(g)
    /\ \A c \in Components(g) : Cardinality(c) <= Cardinality(h.nodes)
    /\ h.edges = {e \in g.edges : e[1] \in h.nodes /\ e[2] \in h.nodes}

\* C5: for every non-empty graph and every iteration order of its node and
\* edge sets, lcc returns the graph restricted to one connected component of
\* maximum node count: its nodes, and the edges with both endpoints in it.
C5_LccIsLargestComponent == [][gop' = "lcc" => IsLargestComponent(G, GP)]_vars

\* lcc has kept the triangle {3, 4, 5} of the two disjoint triangles
C5_Witness ==
    /\ gop = "lcc"
    /\ nodes = {3, 4, 5}
    /\ Cardinality(edges) = 3

(***************************************************************************)
(* Properties of the compact graph and its constructors.                   *)
(***************************************************************************)
RECURSIVE Pow(_, _)
Pow(b, e) == IF e = 0 THEN 1 ELSE b * Pow(b, e - 1)

C7_ApolloCounts ==
    ng.name[1] = "Apollo" =>
        LET g == ng.name[2]
            st == ApolloLocals(g)
        IN  /\ Len(st.active_triangles) = 4 * Pow(3, g)
            /\ ng.n = 2 * Pow(3, g) + 2
            /\ ng.m = 6 * Pow(3, g)
            /\ g > 0 =>
                  LET prev == ApolloLocals(g - 1)
                      active == Len(prev.active_triangles)
                  IN  /\ Len(st.active_triangles) = 3 * active
                      /\ ng.n = prev.n + active
                      /\ ng.m = prev.m + 3 * active
            /\ g = 0 => ng.n = 4 /\ ng.m = 6
            /\ g = 1 => ng.n = 8 /\ ng.m = 18

\* from_apollo(1) was built
C7_Witness == ng.name = <<"Apollo", 1>> /\ ng.n = 8 /\ ng.m = 18

\* C8: from n = 3 and 3 edges, each generation of from_pseudo_ext(m, g)
\* multiplies the edge count by 2m + 1 and adds (previous edge count) * m
\* nodes, for every m >= 0; from_pseudofractal(g) has the n, m and adjacency
\* of from_pseudo_ext(1, g); from_pseudofractal(0) has n = 3, m = 3 and
\* from_pseudofractal(1) has n = 6, m = 9.
C8_PseudoCounts ==
    /\ ng.name[1] = "PseudoExt" =>
          LET m == ng.name[2]
              g == ng.name[3]
          IN  /\ ng.m = 3 * Pow(2 * m + 1, g)
              /\ g = 0 => ng.n = 3 /\ ng.m = 3
              /\ g > 0 =>
                    LET prev == from_pseudo_ext(m, g - 1)
                    IN  /\ ng.m = prev.m * (2 * m + 1)
                        /\ ng.n = prev.n + prev.m * m
    /\ ng.name[1] = "Pseudofractal" =>
          LET g == ng.name[2]
              ext == from_pseudo_ext(1, g)
          IN  /\ ng.n = ext.n /\ ng.m = ext.m /\ ng.adjs = ext.adjs
              /\ ng.m = 3 * Pow(3, g)
              /\ g = 0 => ng.n = 3 /\ ng.m = 3
              /\ g = 1 => ng.n = 6 /\ ng.m = 9
              /\ g > 0 =>
                    LET prev == from_pseudofractal(g - 1)
                    IN  ng.m = prev.m * 3 /\ ng.n = prev.n + prev.m

\* from_pseudo_ext(2, 2) was built: two generations of two bridges per edge
C8_Witness == ng.name = <<"PseudoExt", 2, 2>> /\ ng.m = 75 /\ ng.n = 39

StrictlyAscending(q) == \A i \in 1 .. Len(q) - 1 : q[i] < q[i + 1]

\* v is in the adjacency list of u
InAdj(h, u, v) == \E i \in DOMAIN h.adjs[u + 1] : h.adjs[u + 1][i] = v

\* C9: every compact graph a constructor returns has n adjacency lists, each
\* strictly ascending, without self-loop and with ids below n only, and v is
\* in adjacency[u] iff u is in adjacency[v] (the generators do not sort).
C9_CompactInvariant ==
    ng # NoGraph =>
        /\ Len(ng.adjs) = ng.n
        /\ \A u \in 0 .. ng.n - 1 :
              LET adj == ng.adjs[u + 1]
              IN  /\ StrictlyAscending(adj)
                  /\ \A i \in DOMAIN adj :
                        /\ adj[i] # u
                        /\ adj[i] \in 0 .. ng.n - 1
                        /\ InAdj(ng, adj[i], u)

\* from_general was run on the dense triangle {(0,1), (1,2), (0,2)}
C9_Witness ==
    /\ gop = "from_general"
    /\ edges = {<<0, 1>>, <<1, 2>>, <<0, 2>>}
    /\ ng.n = 3 /\ ng.m = 3
    /\ \A u \in 1 .. 3 : Len(ng.adjs[u]) = 2

\* C10: from_general keeps the graph up to relabelling: a bijection f from
\* the labels onto 0..n-1 has f(v) in adjacency[f(u)] iff {u, v} is an edge;
\* the test max + 1 == n holds exactly when the labels are {0..n-1}, and then
\* f is the identity.
C10_FromGeneralRelabels ==
    gop = "from_general" /\ nodes # {} =>
        /\ ng.n = Cardinality(nodes)
        /\ ~Renumber(G) <=> nodes = 0 .. ng.n - 1
        /\ \E f \in [nodes -> 0 .. ng.n - 1] :
              /\ \A a, b \in nodes : a # b => f[a] # f[b]
              /\ ~Renumber(G) => \A a \in nodes : f[a] = a
              /\ \A u, v \in nodes :
                    InAdj(ng, f[u], f[v]) <=> (<<u, v>> \in edges \/ <<v, u>> \in edges)

\* from_general renumbered a graph whose labels are not 0..n-1
C10_Witness ==
    /\ gop = "from_general"
    /\ nodes # {}
    /\ 0 \notin nodes
    /\ Renumber(G)
    /\ ng.n = 3 /\ ng.m >= 2

(***************************************************************************)
(* Properties of add_edge.                                                 *)
(***************************************************************************)
\* C11: from every reachable graph, add_edge(u, u) changes neither the edge
\* set nor the node set, for every u (u is not added when it is absent).
C11_SelfLoopIsNoOp ==
    \A u \in Labels :
        LET g == GeneralUndiGraph_add_edge(G, u, u)
        IN  g.edges = edges /\ g.nodes = nodes

\* add_edge(u, u) ran on the empty graph: the last operation is add_edge and
\* there is still no node
C11_Witness == gop = "add_edge" /\ nodes = {} /\ edges = {}

Min(a, b) == IF a < b THEN a ELSE b

Max(a, b) == IF a < b THEN b ELSE a

\* the stored pairs that join u and v, in either orientation
Stored(g, u, v) == {e \in g.edges : {e[1], e[2]} = {u, v}}

\* C12: from every reachable graph and for u # v, add_edge(u, v) and
\* add_edge(v, u) give the same node and edge sets, the pair is stored as
\* (min, max) only, and repeating either call in either order changes
\* nothing more.
C12_AddEdgeCanonical ==
    \A u, v \in Labels :
        u # v =>
            LET uv == GeneralUndiGraph_add_edge(G, u, v)
                vu == GeneralUndiGraph_add_edge(G, v, u)
            IN  /\ uv = vu
                /\ uv.nodes = nodes \cup {u, v}
                /\ uv.edges = edges \cup {<<Min(u, v), Max(u, v)>>}
                /\ Stored(uv, u, v) = {<<Min(u, v), Max(u, v)>>}
                /\ GeneralUndiGraph_add_edge(uv, u, v) = uv
                /\ GeneralUndiGraph_add_edge(uv, v, u) = uv
                /\ GeneralUndiGraph_add_edge(GeneralUndiGraph_add_edge(uv, v, u), u, v) = uv

\* add_edge(1, 2) and add_edge(2, 1) on the empty graph left the pair (1, 2)
C12_Witness == gop = "add_edge" /\ edges = {<<1, 2>>} /\ nodes = {1, 2}

(***************************************************************************)
(* Invariant of the sparse graph.                                          *)
(***************************************************************************)
\* every stored edge is (a, b) with a < b and both ends in the node set
EdgesCanonical ==
    \A e \in edges : e[1] < e[2] /\ e[1] \in nodes /\ e[2] \in nodes

\* add_edge removes no node and no edge
AddEdgeGrows == gop' = "add_edge" => nodes \subseteq nodes' /\ edges \subseteq edges'

\* C19: in every state reached from the empty graph by add_edge and lcc (and
\* from_file), every stored edge (a, b) has a < b and both a and b in the
\* node set; add_edge never removes a node or an edge.
C19_SparseInvariant == [] EdgesCanonical /\ [][AddEdgeGrows]_vars

\* lcc has returned a path of three nodes
C19_Witness ==
    /\ gop = "lcc"
    /\ Cardinality(nodes) = 3
    /\ Cardinality(edges) = 2

(***************************************************************************)
(* The n and m fields against the adjacency lists.                         *)
(***************************************************************************)
\* the sum of the lengths of the lists adjs[lo .. hi]
RECURSIVE SumLen(_, _, _)
SumLen(adjs, lo, hi) ==
    IF lo > hi
    THEN 0
    ELSE IF lo = hi
         THEN Len(adjs[lo])
         ELSE LET mid == (lo + hi) \div 2
              IN  SumLen(adjs, lo, mid) + SumLen(adjs, mid + 1, hi)

\* the distinct edges {u, v} the adjacency lists hold, as pairs with u < v
AdjEdges(h) ==
    UNION {{<<u - 1, h.adjs[u][i]>> : i \in {j \in DOMAIN h.adjs[u] : u - 1 < h.adjs[u][j]}}
              : u \in DOMAIN h.adjs}

\* C20: every compact graph a constructor returns has n adjacency lists
\* whose lengths sum to 2 * m, and m distinct edges; for from_koch, m is
\* 3 * (number of triangles), so no two triangles share an edge.
C20_CountsAgreeWithAdjs ==
    ng # NoGraph =>
        /\ Len(ng.adjs) = ng.n
        /\ SumLen(ng.adjs, 1, Len(ng.adjs)) = 2 * ng.m
        /\ Cardinality(AdjEdges(ng)) = ng.m
        /\ ng.name[1] = "Koch" => ng.m = 3 * Len(KochLocals(ng.name[2]).triangles)

\* from_koch(2) was built: 16 triangles, 48 edges
C20_Witness == ng.name = <<"Koch", 2>> /\ ng.m = 48 /\ Len(ng.adjs) = 33

(***************************************************************************)
(* add_unchecked on a present key, and the forest of the generic DSU.      *)
(***************************************************************************)
\* C13: from every reachable state, add_unchecked(v) returns the slot count,
\* appends a singleton slot for v and points the map at it, present or not;
\* every old slot is left as it was (the old slot of v stays linked), find(v)
\* is then the new slot, find(v) != find(w) for every other key w (one that v
\* was unioned with included), and find(w) is unchanged.
C13_AddUncheckedRepoints ==
    \A v \in Keys :
        LET n == Len(entries)
            r == DSU_add_unchecked(D, v)
        IN  /\ r.ret = n
            /\ Len(r.d.entries) = n + 1
            /\ r.d.entries[n + 1] = [val |-> v, parent |-> n]
            /\ r.d.indices[v] = n
            /\ \A i \in 1 .. n : r.d.entries[i] = entries[i]
            /\ DSU_find(r.d, v).ret = n
            /\ \A w \in (DOMAIN indices) \ {v} :
                  /\ r.d.indices[w] = indices[w]
                  /\ DSU_find(r.d, w).ret = DSU_find(D, w).ret
                  /\ ~SameFind(r.d, v, w)

\* add_unchecked ran on a key v that was unioned with w: v now has the last
\* slot, its old slot is still there, and find(v) != find(w)
C13_Witness ==
    /\ dupAdded
    /\ \E p \in unioned : \E v, w \in p :
          /\ v # w
          /\ indices[v] = Len(entries) - 1
          /\ \E i \in 1 .. Len(entries) - 1 : entries[i].val = v
          /\ ~SameFind(D, v, w)

\* the slot reached from slot i by at most k parent links
RECURSIVE Climb(_, _)
Climb(i, k) ==
    IF k = 0 \/ entries[i + 1].parent = i THEN i ELSE Climb(entries[i + 1].parent, k - 1)

\* C18: after any sequence of add, add_unchecked (present keys included),
\* find and union, every parent index is a slot index, the parent links from
\* every slot end at a slot that is its own parent, and the map sends every
\* inserted key to a slot holding that key.
C18_ForestInvariant ==
    LET n == Len(entries)
    IN  /\ \A i \in 0 .. n - 1 :
              /\ entries[i + 1].parent \in 0 .. n - 1
              /\ entries[Climb(i, n) + 1].parent = Climb(i, n)
              /\ entries[i + 1].val \in DOMAIN indices
        /\ \A k \in DOMAIN indices :
              /\ indices[k] \in 0 .. n - 1
              /\ entries[indices[k] + 1].val = k

\* all slots are in use, a present key was added again and some slot is
\* linked under another
C18_Witness ==
    /\ dupAdded
    /\ Len(entries) = MaxEntries
    /\ \E i \in 0 .. Len(entries) - 1 : entries[i + 1].parent # i

(***************************************************************************)
(* Properties of the FastDSU.                                              *)
(***************************************************************************)
\* the entry reached from x by at most k Id links, read off the map alone
RECURSIVE FClimb(_, _, _)
FClimb(parent, x, k) ==
    IF k = 0 \/ parent[x].tag = "Num" THEN x ELSE FClimb(parent, parent[x].v, k - 1)

FRoot(parent, x) == FClimb(parent, x, Cardinality(DOMAIN parent))

\* the number of Id links from x to its Root
RECURSIVE FDepth(_, _)
FDepth(parent, x) ==
    IF parent[x].tag = "Num" THEN 0 ELSE 1 + FDepth(parent, parent[x].v)

FRoots(parent) == {x \in DOMAIN parent : parent[x].tag = "Num"}

FTree(parent, r) == {x \in DOMAIN parent : FRoot(parent, x) = r}

RECURSIVE SumSizes(_, _)
SumSizes(parent, R) ==
    IF R = {}
    THEN 0
    ELSE LET r == CHOOSE r \in R : TRUE
         IN  parent[r].v + SumSizes(parent, R \ {r})

\* C14: when no id was added twice, after any add, find, find_all and union
\* operations every Id link leads to a tracked id, the links from every id
\* end at a Root, each tree holds exactly one Root, whose size is the number
\* of ids of the tree, and the sizes of the Roots sum to the number of ids.
C14_SizeInvariant ==
    freadds = 0 =>
        /\ \A x \in DOMAIN fparent :
              /\ fparent[x].tag = "Id" => fparent[x].v \in DOMAIN fparent
              /\ FRoot(fparent, x) \in FRoots(fparent)
        /\ \A r \in FRoots(fparent) :
              /\ FTree(fparent, r) \cap FRoots(fparent) = {r}
              /\ fparent[r].v = Cardinality(FTree(fparent, r))
        /\ SumSizes(fparent, FRoots(fparent)) = Cardinality(DOMAIN fparent)

\* two trees of sizes 3 and 1 over four ids added once each
C14_Witness ==
    /\ freadds = 0
    /\ DOMAIN fparent = FastIds
    /\ {fparent[r].v : r \in FRoots(fparent)} = {1, 3}

\* C15: from every reachable state, union(x, y) on roots rx, ry of sizes sx,
\* sy returns false when rx = ry and then changes no Root and no size;
\* otherwise it returns true, and if sx < sy rx becomes Id(ry) and ry
\* Num(sx + sy), else (ties included) ry becomes Id(rx) and rx Num(sx + sy);
\* the other Roots keep their sizes.
C15_UnionBySize ==
    \A x, y \in DOMAIN fparent :
        LET rx == FRoot(fparent, x)
            ry == FRoot(fparent, y)
            sx == fparent[rx].v
            sy == fparent[ry].v
            r == FastDSU_union(fparent, x, y)
        IN  /\ DOMAIN r.parent = DOMAIN fparent
            /\ r.ret = (rx # ry)
            /\ rx = ry =>
                  \A z \in DOMAIN fparent :
                      (fparent[z].tag = "Num" \/ r.parent[z].tag = "Num")
                          => r.parent[z] = fparent[z]
            /\ (rx # ry /\ sx < sy) =>
                  r.parent[rx] = Id(ry) /\ r.parent[ry] = Num(sx + sy)
            /\ (rx # ry /\ sx >= sy) =>
                  r.parent[ry] = Id(rx) /\ r.parent[rx] = Num(sx + sy)
            /\ \A z \in FRoots(fparent) \ {rx, ry} : r.parent[z] = fparent[z]

\* union(0, 1) on two singletons, a tie: 0, the root of x, survives
C15_Witness ==
    /\ freadds = 0
    /\ fjoins = 1
    /\ DOMAIN fparent = {0, 1}
    /\ fparent[0] = Num(2)
    /\ fparent[1] = Id(0)

\* C16: k ids added once each and joined by k - 1 unions that returned true
\* leave exactly one Root, of size k, and retain_map has an entry for each
\* of the k ids, all true; in every state retain_map's chosen entry is a
\* Root of maximum size (never an Id entry) and the map marks true exactly
\* the ids whose root it is.
C16_ChainAndRetainMap ==
    LET k == Cardinality(DOMAIN fparent)
    IN  /\ (freadds = 0 /\ k >= 1 /\ fjoins = k - 1) =>
              /\ \E r \in DOMAIN fparent :
                    FRoots(fparent) = {r} /\ fparent[r] = Num(k)
              /\ \A root \in FastDSU_max_by_key(fparent) :
                    FastDSU_retain_map(fparent, root) = [x \in DOMAIN fparent |-> TRUE]
        /\ \A root \in FastDSU_max_by_key(fparent) :
              /\ fparent[root].tag = "Num"
              /\ \A r \in FRoots(fparent) : fparent[r].v <= fparent[root].v
              /\ FastDSU_retain_map(fparent, root)
                    = [x \in DOMAIN fparent |-> FRoot(fparent, x) = root]

\* all ids are joined into one tree by as many unions as there are ids less
\* one, and some id is two links away from the Root
C16_Witness ==
    /\ freadds = 0
    /\ DOMAIN fparent = FastIds
    /\ fjoins = MaxFastId
    /\ \E x \in DOMAIN fparent : FDepth(fparent, x) = 2

\* the generic DSU after add(1) and union(1, 2), union(2, 3), .., union(k-1, k)
RECURSIVE DSUChain(_)
DSUChain(k) ==
    IF k = 1 THEN DSU_add(DSU_new, 1).d ELSE DSU_union(DSUChain(k - 1), k - 1, k).d

\* the number of parent links from slot i to its root
RECURSIVE DSUDepth(_, _)
DSUDepth(d, i) ==
    IF d.entries[i + 1].parent = i THEN 0 ELSE 1 + DSUDepth(d, d.entries[i + 1].parent)

\* C17: when no id was added twice, after any union and find_all operations
\* every id at depth d has 2^d <= size of its Root; the generic DSU has no
\* such bound: k - 1 unions over k keys leave key 1 at depth k - 1.
C17_HeightBound ==
    /\ freadds = 0 =>
          \A x \in DOMAIN fparent :
              Pow(2, FDepth(fparent, x)) <= fparent[FRoot(fparent, x)].v
    /\ \A k \in 1 .. NumKeys :
          LET d == DSUChain(k)
          IN  Len(d.entries) = k /\ DSUDepth(d, d.indices[1]) = k - 1

\* two trees of two ids were joined: an id at depth 2 under a Root of size 4
C17_Witness ==
    /\ freadds = 0
    /\ \E x \in DOMAIN fparent :
          FDepth(fparent, x) = 2 /\ fparent[FRoot(fparent, x)] = Num(4)

(***************************************************************************)
(* lcc on the empty graph.                                                 *)
(***************************************************************************)
\* C21: lcc on a graph without nodes does not return the empty graph: the
\* FastDSU it builds has no entry, max_by_key returns None and the unwrap
\* panics; on every reachable graph with a node lcc does not panic: every id
\* it looks up in the FastDSU or in the retain map is present, and it
\* returns a graph with a node.
C21_LccPanicsOnEmptyOnly ==
    /\ gop = "lcc_panic" => nodes = {}
    /\ gop = "lcc" => nodes # {}
    /\ (ng = NoGraph /\ nodes = {}) =>
          /\ ~LccIndexPanics(G)
          /\ \A parent \in LccDSUs(G) : LccUnwrapPanics(parent)
    /\ (ng = NoGraph /\ nodes # {}) =>
          /\ ~LccIndexPanics(G)
          /\ \A parent \in LccDSUs(G) :
                /\ ~LccUnwrapPanics(parent)
                /\ DOMAIN parent = nodes
                /\ \A e \in edges : e[1] \in DOMAIN parent /\ e[2] \in DOMAIN parent
                /\ \A root \in FastDSU_max_by_key(parent) :
                      DOMAIN FastDSU_retain_map(parent, root) = nodes

\* lcc was called on the empty graph and panicked
C21_Witness == gop = "lcc_panic" /\ nodes = {} /\ edges = {} /\ ng = NoGraph

====
